---- MODULE Spec2Model ----
(***************************************************************************)
(* Retrieval-and-assembly core of pydantic_ai_expert.py: get_embedding and *)
(* the three agent tools retrieve_relevant_documentation,                  *)
(* list_documentation_pages and get_page_content, together with the        *)
(* embedding provider and the Supabase store they call.                    *)
(*                                                                         *)
(* Python strings are sequences of one-character strings, so that          *)
(* formatting, joining, splitting and comparing are computed character by  *)
(* character.  A call's outcome is a record: either a returned value with  *)
(* its Python type, or a raised exception with its class and message;      *)
(* `out` carries the lines the call printed.                               *)
(***************************************************************************)
EXTENDS Integers, Sequences, FiniteSets, TLC

VARIABLES
    pc,               \* position of the agent turn: idle, inside a tool, done
    op,               \* name of the tool being run
    arg,              \* the tool's argument (user_query or url)
    embed_request,    \* request sent to openai_client.embeddings.create
    embed_outcome,    \* what the embedding provider answered
    query_embedding,  \* local of retrieve_relevant_documentation
    backend_request,  \* request sent to the Supabase store
    response,         \* what the store answered to .execute()
    result,           \* what the tool handed back to the agent
    printed,          \* lines written by print during the tool call
    embed_calls,      \* embedding requests issued during the tool call
    backend_calls,    \* store requests issued during the tool call
    sources           \* per tool, the source label of its last store request

vars == <<pc, op, arg, embed_request, embed_outcome, query_embedding,
          backend_request, response, result, printed, embed_calls,
          backend_calls, sources>>

(***************************************************************************)
(* Bounds of the model                                                     *)
(***************************************************************************)
MaxUrlRows == 3
MaxPageRows == 3

(***************************************************************************)
(* Program constants                                                       *)
(***************************************************************************)
EmbeddingDim == 1536
MatchCount == 5
EmbeddingModel == "text-embedding-3-small"
RetrieveSource == "pydantic_ai_docs"
ListSource == "n8n_docs"
PageSource == "n8n_docs"

Tools == {"retrieve_relevant_documentation", "list_documentation_pages",
          "get_page_content"}

(***************************************************************************)
(* Outcomes of calls                                                       *)
(***************************************************************************)
Ret(type, value, out) ==
    [kind |-> "return", type |-> type, value |-> value,
     cls |-> "", msg |-> <<>>, out |-> out]

Raise(cls, msg, out) ==
    [kind |-> "raise", type |-> "", value |-> <<>>,
     cls |-> cls, msg |-> msg, out |-> out]

NoOutcome ==
    [kind |-> "none", type |-> "", value |-> <<>>,
     cls |-> "", msg |-> <<>>, out |-> <<>>]

\* Classes derived from Exception, the ones `except Exception` catches.
\* CancelledError, KeyboardInterrupt and SystemExit derive from BaseException.
ExceptionClasses ==
    {"Exception", "IndexError", "KeyError", "TypeError", "APIError",
     "APIConnectionError", "ConnectError"}

ExceptOnlyIndexError(cls) == cls = "IndexError"

ExceptException(cls) == cls \in ExceptionClasses

(***************************************************************************)
(* Python string and list primitives                                       *)
(***************************************************************************)
\* sep.join(parts)
RECURSIVE join(_, _)
join(sep, parts) ==
    IF Len(parts) = 0 THEN <<>>
    ELSE IF Len(parts) = 1 THEN parts[1]
    ELSE parts[1] \o sep \o join(sep, Tail(parts))

\* s.find(sep, from), 1-based, 0 when absent
RECURSIVE find(_, _, _)
find(s, sep, from) ==
    IF from + Len(sep) - 1 > Len(s) THEN 0
    ELSE IF SubSeq(s, from, from + Len(sep) - 1) = sep THEN from
    ELSE find(s, sep, from + 1)

\* s.split(sep)
RECURSIVE split(_, _)
split(s, sep) ==
    LET i == find(s, sep, 1)
    IN  IF i = 0 THEN <<s>>
        ELSE <<SubSeq(s, 1, i - 1)>> \o split(SubSeq(s, i + Len(sep), Len(s)), sep)

\* ord(c) for the characters that occur in the urls of the model
ord(c) ==
    CASE c = "/" -> 47
      [] c = "B" -> 66
      [] c = "a" -> 97
      [] c = "b" -> 98

\* a < b on str: code point order, a proper prefix is smaller
RECURSIVE str_lt(_, _)
str_lt(a, b) ==
    IF Len(b) = 0 THEN FALSE
    ELSE IF Len(a) = 0 THEN TRUE
    ELSE IF ord(Head(a)) # ord(Head(b)) THEN ord(Head(a)) < ord(Head(b))
    ELSE str_lt(Tail(a), Tail(b))

\* sorted(S) of a set of str
RECURSIVE sorted(_)
sorted(S) ==
    IF S = {} THEN <<>>
    ELSE LET m == CHOOSE x \in S : \A y \in S \ {x} : str_lt(x, y)
         IN  <<m>> \o sorted(S \ {m})

\* `not result.data`
not_data(data) == Len(data) = 0

(***************************************************************************)
(* The collaborators: embedding provider and Supabase store                *)
(***************************************************************************)
\* [0] * 1535
ShortZeroVector == [i \in 1..(EmbeddingDim - 1) |-> 0]

\* [0] * 1536
ZeroVector == [i \in 1..EmbeddingDim |-> 0]

\* Vectors text-embedding-3-small can answer with.
ProviderVectors ==
    {[i \in 1..EmbeddingDim |-> 1],
     [i \in 1..EmbeddingDim |-> IF i = 1 THEN 1 ELSE 0]}

\* What `await openai_client.embeddings.create(...)` can do: raise, or hand
\* back a response whose .data lists zero or more embeddings.
EmbedOutcomes ==
    {Raise("APIConnectionError", <<"C", "o", "n", "n", "e", "c", "t", "i", "o", "n", " ", "e", "r", "r", "o", "r", ".">>, <<>>),
     Ret("response", <<>>, <<>>)}
    \cup {Ret("response", <<v>>, <<>>) : v \in ProviderVectors}
    \cup {Ret("response", <<v, ZeroVector>>, <<>>) : v \in ProviderVectors}

\* What `.execute()` can raise.
BackendErrors ==
    {Raise("APIError", <<"b", "a", "d", " ", "f", "i", "l", "t", "e", "r">>, <<>>),
     Raise("ConnectError", <<"t", "i", "m", "e", "d", " ", "o", "u", "t">>, <<>>)}

SeqsUpTo(S, n) == UNION {[1..k -> S] : k \in 0..n}

Queries == {<<>>, <<"w", "e", "b", "h", "o", "o", "k">>}

Urls == {<<"/", "a">>, <<"/", "a", "b">>, <<"/", "b">>, <<"/", "B">>}

PageArgs == {<<"/", "a">>, <<"/", "B">>}

Titles == {<<"S", "e", "t", "u", "p", " ", "G", "u", "i", "d", "e", " ", "-", " ", "n", "8", "n", " ", "D", "o", "c", "s">>, <<"A", "P", "I">>, <<"A", " ", "-", " ", "B", " ", "-", " ", "C">>}

Contents == {<<"S", "t", "e", "p", " ", "1", ".">>, <<"S", "t", "e", "p", " ", "2", ".">>}

ChunkNumbers == {0, 2}

\* Rows of match_site_pages; of their columns the tool reads title and content.
RpcRows ==
    {[title |-> <<"S", "e", "t", "u", "p", " ", "G", "u", "i", "d", "e", " ", "-", " ", "n", "8", "n", " ", "D", "o", "c", "s">>, content |-> <<"S", "t", "e", "p", " ", "1", ".">>],
     [title |-> <<"A", "P", "I">>, content |-> <<"S", "t", "e", "p", " ", "2", ".">>],
     [title |-> <<"A", "P", "I">>, content |-> <<"S", "t", "e", "p", " ", "1", ".">>]}

UrlRows == [url : Urls]

PageRows == [title : Titles, content : Contents, chunk_number : ChunkNumbers]

\* .order('chunk_number'): the store hands the rows back in ascending order
OrderedBy(rows, column) ==
    column = "chunk_number" =>
        \A i \in 1..(Len(rows) - 1) : rows[i].chunk_number <= rows[i + 1].chunk_number

NoRequest ==
    [fn |-> "none", select |-> "", query_embedding |-> <<>>, match_count |-> 0,
     url |-> <<>>, source |-> "", order |-> ""]

\* supabase.rpc('match_site_pages', {...})
rpc_request(embedding) ==
    [fn |-> "match_site_pages", select |-> "", query_embedding |-> embedding,
     match_count |-> MatchCount, url |-> <<>>, source |-> RetrieveSource,
     order |-> ""]

\* supabase.from_('site_pages').select('url').eq('metadata->>source', ...)
list_request ==
    [fn |-> "site_pages", select |-> "url", query_embedding |-> <<>>,
     match_count |-> 0, url |-> <<>>, source |-> ListSource, order |-> ""]

\* supabase.from_('site_pages').select(...).eq('url', url).eq(...).order(...)
page_request(url) ==
    [fn |-> "site_pages", select |-> "title, content, chunk_number",
     query_embedding |-> <<>>, match_count |-> 0, url |-> url,
     source |-> PageSource, order |-> "chunk_number"]

\* Answers of the store to a request.
BackendOutcomes(req) ==
    BackendErrors \cup
    IF req.fn = "match_site_pages"
    THEN {Ret("data", rows, <<>>) : rows \in SeqsUpTo(RpcRows, req.match_count)}
    ELSE IF req.select = "url"
    THEN {Ret("data", rows, <<>>) : rows \in SeqsUpTo(UrlRows, MaxUrlRows)}
    ELSE {Ret("data", rows, <<>>) :
            rows \in {r \in SeqsUpTo(PageRows, MaxPageRows) : OrderedBy(r, req.order)}}

(***************************************************************************)
(* get_embedding                                                           *)
(***************************************************************************)
\* response.data[0].embedding
first_embedding(created) ==
    IF created.kind = "raise" THEN created
    ELSE IF Len(created.value) = 0
    THEN Raise("IndexError", <<"l", "i", "s", "t", " ", "i", "n", "d", "e", "x", " ", "o", "u", "t", " ", "o", "f", " ", "r", "a", "n", "g", "e">>, <<>>)
    ELSE Ret("vector", created.value[1], <<>>)

embedding_error_line(e) == <<"E", "r", "r", "o", "r", " ", "g", "e", "t", "t", "i", "n", "g", " ", "e", "m", "b", "e", "d", "d", "i", "n", "g", ":", " ">> \o e.msg

get_embedding_reraises(created) == first_embedding(created)

get_embedding(created) ==
    LET body == first_embedding(created)
    IN  IF body.kind = "raise" /\ ExceptException(body.cls)
        THEN Ret("vector", ZeroVector, <<embedding_error_line(body)>>)
        ELSE body

(***************************************************************************)
(* retrieve_relevant_documentation                                         *)
(***************************************************************************)
NoRelevantDocumentation == <<"N", "o", " ", "r", "e", "l", "e", "v", "a", "n", "t", " ", "d", "o", "c", "u", "m", "e", "n", "t", "a", "t", "i", "o", "n", " ", "f", "o", "u", "n", "d", ".">>

ChunkSeparator == <<"\n", "\n", "-", "-", "-", "\n", "\n">>

format_chunk(doc) == <<"\n", "#", " ">> \o doc.title \o <<"\n", "\n">> \o doc.content \o <<"\n">>

formatted_chunks_dedup(data) ==
    LET keep == {i \in DOMAIN data : \A j \in 1..(i - 1) : data[j] # data[i]}
        RECURSIVE pick(_)
        pick(i) == IF i > Len(data) THEN <<>>
                   ELSE (IF i \in keep THEN <<format_chunk(data[i])>> ELSE <<>>)
                        \o pick(i + 1)
    IN  pick(1)

formatted_chunks(data) == [i \in DOMAIN data |-> format_chunk(data[i])]

retrieve_error_line(e) == <<"E", "r", "r", "o", "r", " ", "r", "e", "t", "r", "i", "e", "v", "i", "n", "g", " ", "d", "o", "c", "u", "m", "e", "n", "t", "a", "t", "i", "o", "n", ":", " ">> \o e.msg

retrieve_empty_on_no_data(executed) ==
    IF executed.kind = "raise" THEN executed
    ELSE Ret("str", join(ChunkSeparator, formatted_chunks(executed.value)), <<>>)

\* lines 77-91, given the outcome of .execute()
retrieve_try(executed) ==
    IF executed.kind = "raise" THEN executed
    ELSE IF not_data(executed.value)
    THEN Ret("str", NoRelevantDocumentation, <<>>)
    ELSE Ret("str", join(ChunkSeparator, formatted_chunks(executed.value)), <<>>)

\* lines 93-95
retrieve_except(body) ==
    IF body.kind = "raise" /\ ExceptException(body.cls)
    THEN Ret("str", retrieve_error_line(body), <<retrieve_error_line(body)>>)
    ELSE body

(***************************************************************************)
(* list_documentation_pages                                                *)
(***************************************************************************)
\* list(dict.fromkeys(...)): unique, in order of first appearance
unique_urls_unsorted(data) ==
    LET RECURSIVE pick(_)
        pick(i) == IF i > Len(data) THEN <<>>
                   ELSE (IF \A j \in 1..(i - 1) : data[j].url # data[i].url
                         THEN <<data[i].url>> ELSE <<>>) \o pick(i + 1)
    IN  pick(1)

\* sorted(set(doc['url'] for doc in result.data))
unique_sorted_urls(data) == sorted({data[i].url : i \in DOMAIN data})

list_try(executed) ==
    IF executed.kind = "raise" THEN executed
    ELSE IF not_data(executed.value) THEN Ret("list", <<>>, <<>>)
    ELSE Ret("list", unique_sorted_urls(executed.value), <<>>)

list_error_line(e) == <<"E", "r", "r", "o", "r", " ", "r", "e", "t", "r", "i", "e", "v", "i", "n", "g", " ", "d", "o", "c", "u", "m", "e", "n", "t", "a", "t", "i", "o", "n", " ", "p", "a", "g", "e", "s", ":", " ">> \o e.msg

list_except_returns_message(body) ==
    IF body.kind = "raise" /\ ExceptException(body.cls)
    THEN Ret("list", <<list_error_line(body)>>, <<list_error_line(body)>>)
    ELSE body

list_except(body) ==
    IF body.kind = "raise" /\ ExceptException(body.cls)
    THEN Ret("list", <<>>, <<list_error_line(body)>>)
    ELSE body

(***************************************************************************)
(* get_page_content                                                        *)
(***************************************************************************)
no_content_without_url(url) == <<"N", "o", " ", "c", "o", "n", "t", "e", "n", "t", " ", "f", "o", "u", "n", "d", " ", "f", "o", "r", " ", "U", "R", "L", ":", " ">>

no_content_message(url) == <<"N", "o", " ", "c", "o", "n", "t", "e", "n", "t", " ", "f", "o", "u", "n", "d", " ", "f", "o", "r", " ", "U", "R", "L", ":", " ">> \o url

page_title_last_part(title) ==
    LET parts == split(title, <<" ", "-", " ">>) IN parts[Len(parts)]

\* result.data[0]['title'].split(' - ')[0]
page_title(title) == split(title, <<" ", "-", " ">>)[1]

page_contents(data) == [i \in DOMAIN data |-> data[i].content]

\* lines 144-156, given the outcome of .execute()
page_try(url, executed) ==
    IF executed.kind = "raise" THEN executed
    ELSE IF not_data(executed.value)
    THEN Ret("str", no_content_message(url), <<>>)
    ELSE Ret("str",
             join(<<"\n", "\n">>, <<<<"#", " ">> \o page_title(executed.value[1].title) \o <<"\n">>>>
                            \o page_contents(executed.value)),
             <<>>)

page_error_line(e) == <<"E", "r", "r", "o", "r", " ", "r", "e", "t", "r", "i", "e", "v", "i", "n", "g", " ", "p", "a", "g", "e", " ", "c", "o", "n", "t", "e", "n", "t", ":", " ">> \o e.msg

\* lines 158-160
page_except(body) ==
    IF body.kind = "raise" /\ ExceptException(body.cls)
    THEN Ret("str", page_error_line(body), <<page_error_line(body)>>)
    ELSE body

(***************************************************************************)
(* The agent turn: one tool call at a time                                 *)
(***************************************************************************)
Returned(r) == [r EXCEPT !.out = <<>>]

Init ==
    /\ pc = "idle"
    /\ op = "none"
    /\ arg = <<>>
    /\ embed_request = [model |-> "", input |-> <<>>]
    /\ embed_outcome = NoOutcome
    /\ query_embedding = <<>>
    /\ backend_request = NoRequest
    /\ response = NoOutcome
    /\ result = NoOutcome
    /\ printed = <<>>
    /\ embed_calls = 0
    /\ backend_calls = 0
    /\ sources = [t \in Tools |-> "none"]

\* The agent calls retrieve_relevant_documentation(ctx, user_query); the tool
\* runs up to `await openai_client.embeddings.create(...)`.
CallRetrieve ==
    /\ pc = "idle"
    /\ \E user_query \in Queries :
        /\ arg' = user_query
        /\ embed_request' = [model |-> EmbeddingModel, input |-> user_query]
    /\ op' = "retrieve_relevant_documentation"
    /\ embed_calls' = 1
    /\ pc' = "await_embedding"
    /\ UNCHANGED <<embed_outcome, query_embedding, backend_request, response,
                   result, printed, backend_calls, sources>>

\* The provider answers; get_embedding returns and the tool goes on to
\* supabase.rpc(...).execute(), or its handler ends the call.
EmbeddingReturns ==
    /\ pc = "await_embedding"
    /\ \E created \in EmbedOutcomes :
        LET embedded == get_embedding(created)
            handled == retrieve_except(embedded)
        IN  /\ embed_outcome' = created
            /\ IF embedded.kind = "return"
               THEN /\ query_embedding' = embedded.value
                    /\ backend_request' = rpc_request(embedded.value)
                    /\ backend_calls' = backend_calls + 1
                    /\ sources' = [sources EXCEPT ![op] = rpc_request(embedded.value).source]
                    /\ printed' = printed \o embedded.out
                    /\ pc' = "execute"
                    /\ UNCHANGED result
               ELSE /\ result' = Returned(handled)
                    /\ printed' = printed \o handled.out
                    /\ pc' = "done"
                    /\ UNCHANGED <<query_embedding, backend_request,
                                   backend_calls, sources>>
    /\ UNCHANGED <<op, arg, embed_request, response, embed_calls>>

\* The agent calls list_documentation_pages(ctx); the tool runs up to .execute().
CallList ==
    /\ pc = "idle"
    /\ op' = "list_documentation_pages"
    /\ backend_request' = list_request
    /\ backend_calls' = 1
    /\ sources' = [sources EXCEPT !["list_documentation_pages"] = list_request.source]
    /\ pc' = "execute"
    /\ UNCHANGED <<arg, embed_request, embed_outcome, query_embedding, response,
                   result, printed, embed_calls>>

\* The agent calls get_page_content(ctx, url); the tool runs up to .execute().
CallPage ==
    /\ pc = "idle"
    /\ \E url \in PageArgs :
        /\ arg' = url
        /\ backend_request' = page_request(url)
        /\ sources' = [sources EXCEPT !["get_page_content"] = page_request(url).source]
    /\ op' = "get_page_content"
    /\ backend_calls' = 1
    /\ pc' = "execute"
    /\ UNCHANGED <<embed_request, embed_outcome, query_embedding, response,
                   result, printed, embed_calls>>

\* What the running tool hands back, given the outcome of .execute()
finish(tool, url, executed) ==
    CASE tool = "retrieve_relevant_documentation" ->
            retrieve_except(retrieve_try(executed))
      [] tool = "list_documentation_pages" ->
            list_except(list_try(executed))
      [] tool = "get_page_content" ->
            page_except(page_try(url, executed))

\* .execute() answers and the tool runs to its return.
ExecuteReturns ==
    /\ pc = "execute"
    /\ \E executed \in BackendOutcomes(backend_request) :
        /\ response' = executed
        /\ result' = Returned(finish(op, arg, executed))
        /\ printed' = printed \o finish(op, arg, executed).out
    /\ pc' = "done"
    /\ UNCHANGED <<op, arg, embed_request, embed_outcome, query_embedding,
                   backend_request, embed_calls, backend_calls, sources>>

\* The agent takes the tool's result; the core keeps nothing between calls.
Return ==
    /\ pc = "done"
    /\ pc' = "idle"
    /\ op' = "none"
    /\ arg' = <<>>
    /\ embed_request' = [model |-> "", input |-> <<>>]
    /\ embed_outcome' = NoOutcome
    /\ query_embedding' = <<>>
    /\ backend_request' = NoRequest
    /\ response' = NoOutcome
    /\ result' = NoOutcome
    /\ printed' = <<>>
    /\ embed_calls' = 0
    /\ backend_calls' = 0
    /\ UNCHANGED sources

Next ==
    \/ CallRetrieve
    \/ EmbeddingReturns
    \/ CallList
    \/ CallPage
    \/ ExecuteReturns
    \/ Return

Spec == Init /\ [][Next]_vars

(***************************************************************************)
(* Vocabulary of the properties                                            *)
(***************************************************************************)
Finished(tool) == pc = "done" /\ op = tool

StoreAnswered == response.kind = "return"

StoreFailed == response.kind = "raise"

ReturnedStr == result.kind = "return" /\ result.type = "str"

ReturnedList == result.kind = "return" /\ result.type = "list"

HasPrefix(s, p) == Len(s) >= Len(p) /\ SubSeq(s, 1, Len(p)) = p

HasSuffix(s, p) == Len(s) >= Len(p) /\ SubSeq(s, Len(s) - Len(p) + 1, Len(s)) = p

\* s reads p from position at on
ReadsAt(s, at, p) == at + Len(p) - 1 <= Len(s) /\ SubSeq(s, at, at + Len(p) - 1) = p

\* The provider call failed: it raised, or its response lists no embedding.
EmbeddingFailed ==
    \/ embed_outcome.kind = "raise"
    \/ embed_outcome.kind = "return" /\ Len(embed_outcome.value) = 0

\* Position in the output of retrieve at which the block of row i starts:
\* every earlier row takes "\n# ", its title, "\n\n", its content, "\n" and
\* the separator "\n\n---\n\n".
RECURSIVE BlockStart(_, _)
BlockStart(rows, i) ==
    IF i = 1 THEN 1
    ELSE BlockStart(rows, i - 1) + 3 + Len(rows[i - 1].title) + 2
           + Len(rows[i - 1].content) + 1 + 7

\* The returned text is, row by row and in the order of the rows, the block
\* of the row, with the separator between two blocks and nothing else.
RenderedFromRows ==
    LET rows == response.value
        out == result.value
        n == Len(rows)
    IN  /\ ReturnedStr
        /\ Len(out) = BlockStart(rows, n + 1) - 8
        /\ \A i \in 1..n :
            LET at == BlockStart(rows, i)
                t == rows[i].title
                c == rows[i].content
            IN  /\ ReadsAt(out, at, <<"\n", "#", " ">>)
                /\ ReadsAt(out, at + 3, t)
                /\ ReadsAt(out, at + 3 + Len(t), <<"\n", "\n">>)
                /\ ReadsAt(out, at + 3 + Len(t) + 2, c)
                /\ ReadsAt(out, at + 3 + Len(t) + 2 + Len(c), <<"\n">>)
                /\ i < n => ReadsAt(out, at + 3 + Len(t) + 2 + Len(c) + 1, <<"\n", "\n", "-", "-", "-", "\n", "\n">>)

\* The part of a title before its first " - ", the whole title without one.
BeforeDelimiter(t) ==
    LET at == {i \in 1..(Len(t) - 2) : t[i] = " " /\ t[i + 1] = "-" /\ t[i + 2] = " "}
    IN  IF at = {} THEN t
        ELSE SubSeq(t, 1, (CHOOSE i \in at : \A j \in at : i <= j) - 1)

\* Position in the output of get_page_content at which the content of row i
\* starts: the heading "# ", the page title and "\n" come first, and every
\* content is preceded by "\n\n".
RECURSIVE ContentStart(_, _, _)
ContentStart(heading, rows, i) ==
    IF i = 1 THEN 2 + Len(heading) + 1 + 2 + 1
    ELSE ContentStart(heading, rows, i - 1) + Len(rows[i - 1].content) + 2

(***************************************************************************)
(* Properties                                                              *)
(***************************************************************************)

\* C1 as stated: whenever the store raises during any of the three tools, the
\* tool returns a str carrying an error indicator ("Error retrieving ...").
C1_FailureYieldsErrorString ==
    (pc = "done" /\ StoreFailed) =>
        ReturnedStr /\ HasPrefix(result.value, <<"E", "r", "r", "o", "r", " ", "r", "e", "t", "r", "i", "e", "v", "i", "n", "g">>)

\* C1 amended: whenever the store raises, no exception reaches the caller;
\* retrieve_relevant_documentation and get_page_content return a str that is
\* "Error retrieving documentation: " / "Error retrieving page content: "
\* followed by the exception's message, and list_documentation_pages returns
\* the empty list, not a str.
C1_StoreFailureHandled ==
    (pc = "done" /\ StoreFailed) =>
        /\ result.kind = "return"
        /\ op = "retrieve_relevant_documentation" =>
              ReturnedStr /\ result.value = <<"E", "r", "r", "o", "r", " ", "r", "e", "t", "r", "i", "e", "v", "i", "n", "g", " ", "d", "o", "c", "u", "m", "e", "n", "t", "a", "t", "i", "o", "n", ":", " ">> \o response.msg
        /\ op = "get_page_content" =>
              ReturnedStr /\ result.value = <<"E", "r", "r", "o", "r", " ", "r", "e", "t", "r", "i", "e", "v", "i", "n", "g", " ", "p", "a", "g", "e", " ", "c", "o", "n", "t", "e", "n", "t", ":", " ">> \o response.msg
        /\ op = "list_documentation_pages" =>
              ReturnedList /\ result.value = <<>>

C1_Witness ==
    /\ Finished("get_page_content")
    /\ StoreFailed
    /\ response.cls = "APIError"
    /\ result.value = <<"E", "r", "r", "o", "r", " ", "r", "e", "t", "r", "i", "e", "v", "i", "n", "g", " ", "p", "a", "g", "e", " ", "c", "o", "n", "t", "e", "n", "t", ":", " ", "b", "a", "d", " ", "f", "i", "l", "t", "e", "r">>

\* C2: when the embedding provider call fails (it raises, or its response
\* lists no embedding), get_embedding raises nothing and returns a vector of
\* exactly 1536 elements, all zero.
C2_ZeroVectorOnFailure ==
    (op = "retrieve_relevant_documentation" /\ pc \in {"execute", "done"}
        /\ EmbeddingFailed) =>
        /\ Len(query_embedding) = 1536
        /\ \A i \in 1..1536 : query_embedding[i] = 0
        /\ result.kind # "raise"

C2_Witness ==
    /\ pc = "execute"
    /\ embed_outcome.kind = "return"
    /\ Len(embed_outcome.value) = 0
    /\ Len(query_embedding) = 1536
    /\ query_embedding[1536] = 0

\* C3: when the store answers retrieve_relevant_documentation with N rows,
\* 1 <= N <= 5, the output is exactly N blocks separated by "\n\n---\n\n",
\* the i-th block made of the i-th row's title as heading and its content.
C3_BlocksInBackendOrder ==
    (Finished("retrieve_relevant_documentation") /\ StoreAnswered
        /\ Len(response.value) \in 1..5) => RenderedFromRows

C3_Witness ==
    /\ Finished("retrieve_relevant_documentation")
    /\ StoreAnswered
    /\ Len(response.value) = 5
    /\ response.value[1] = response.value[3]
    /\ response.value[1].title = <<"A", "P", "I">>
    /\ response.value[2].title = <<"S", "e", "t", "u", "p", " ", "G", "u", "i", "d", "e", " ", "-", " ", "n", "8", "n", " ", "D", "o", "c", "s">>
    /\ HasPrefix(result.value, <<"\n", "#", " ", "A", "P", "I", "\n", "\n", "S", "t", "e", "p", " ", "2", ".", "\n", "\n", "\n", "-", "-", "-", "\n", "\n", "\n", "#", " ", "S", "e", "t", "u", "p", " ", "G", "u", "i", "d", "e", " ", "-", " ", "n", "8", "n", " ", "D", "o", "c", "s", "\n", "\n", "S", "t", "e", "p", " ", "1", ".", "\n">>)

\* C4: when the store answers retrieve_relevant_documentation with zero rows,
\* the output is exactly "No relevant documentation found.", never the empty
\* string and never an error string.
C4_NoRowsMessage ==
    (Finished("retrieve_relevant_documentation") /\ StoreAnswered
        /\ Len(response.value) = 0) =>
        /\ ReturnedStr
        /\ result.value = <<"N", "o", " ", "r", "e", "l", "e", "v", "a", "n", "t", " ", "d", "o", "c", "u", "m", "e", "n", "t", "a", "t", "i", "o", "n", " ", "f", "o", "u", "n", "d", ".">>
        /\ result.value # <<>>
        /\ ~HasPrefix(result.value, <<"E", "r", "r", "o", "r">>)

C4_Witness ==
    /\ Finished("retrieve_relevant_documentation")
    /\ StoreAnswered
    /\ Len(response.value) = 0
    /\ ~EmbeddingFailed
    /\ Len(result.value) = 32

\* C5: whatever rows the store answers with, in any order and with any
\* repetition, the output of list_documentation_pages is strictly ascending
\* in lexical order and its elements are exactly the urls of the rows.
C5_SortedUniqueUrls ==
    (Finished("list_documentation_pages") /\ StoreAnswered) =>
        /\ ReturnedList
        /\ \A i \in 1..(Len(result.value) - 1) :
              str_lt(result.value[i], result.value[i + 1])
        /\ {result.value[i] : i \in DOMAIN result.value}
             = {response.value[i].url : i \in DOMAIN response.value}

C5_Witness ==
    /\ Finished("list_documentation_pages")
    /\ StoreAnswered
    /\ Len(response.value) = 3
    /\ response.value[1].url = <<"/", "b">>
    /\ response.value[2].url = <<"/", "B">>
    /\ response.value[3].url = <<"/", "b">>
    /\ result.value = <<<<"/", "B">>, <<"/", "b">>>>

\* C6: when the store answers get_page_content with at least one row, the
\* output is "# ", the first row's title cut at its first " - " (the whole
\* title without one), a newline, and then the content of every row in the
\* order of the rows, each preceded by a blank line; no row is dropped,
\* merged or moved, whatever its chunk_number.
C6_PageAssembled ==
    (Finished("get_page_content") /\ StoreAnswered /\ Len(response.value) >= 1) =>
        LET rows == response.value
            out == result.value
            heading == BeforeDelimiter(rows[1].title)
            n == Len(rows)
        IN  /\ ReturnedStr
            /\ ReadsAt(out, 1, <<"#", " ">>)
            /\ ReadsAt(out, 3, heading)
            /\ ReadsAt(out, 3 + Len(heading), <<"\n">>)
            /\ \A i \in 1..n :
                  /\ ReadsAt(out, ContentStart(heading, rows, i) - 2, <<"\n", "\n">>)
                  /\ ReadsAt(out, ContentStart(heading, rows, i), rows[i].content)
            /\ Len(out) = ContentStart(heading, rows, n) + Len(rows[n].content) - 1

C6_Witness ==
    /\ Finished("get_page_content")
    /\ StoreAnswered
    /\ Len(response.value) = 3
    /\ response.value[1].title = <<"S", "e", "t", "u", "p", " ", "G", "u", "i", "d", "e", " ", "-", " ", "n", "8", "n", " ", "D", "o", "c", "s">>
    /\ response.value[2].title = <<"A", "P", "I">>
    /\ response.value[1].content = <<"S", "t", "e", "p", " ", "1", ".">>
    /\ response.value[2].content = <<"S", "t", "e", "p", " ", "2", ".">>
    /\ response.value[3].content = <<"S", "t", "e", "p", " ", "1", ".">>
    /\ response.value[1].chunk_number = response.value[2].chunk_number
    /\ response.value[3].chunk_number = 2
    /\ result.value = <<"#", " ", "S", "e", "t", "u", "p", " ", "G", "u", "i", "d", "e", "\n", "\n", "\n", "S", "t", "e", "p", " ", "1", ".", "\n", "\n", "S", "t", "e", "p", " ", "2", ".", "\n", "\n", "S", "t", "e", "p", " ", "1", ".">>

\* C7: when the store answers get_page_content with zero rows, the output is
\* exactly "No content found for URL: " followed by the url asked for.
C7_NoContentMessage ==
    (Finished("get_page_content") /\ StoreAnswered /\ Len(response.value) = 0) =>
        /\ ReturnedStr
        /\ HasPrefix(result.value, <<"N", "o", " ", "c", "o", "n", "t", "e", "n", "t", " ", "f", "o", "u", "n", "d", " ", "f", "o", "r", " ", "U", "R", "L", ":", " ">>)
        /\ HasSuffix(result.value, arg)
        /\ Len(result.value) = 26 + Len(arg)

C7_Witness ==
    /\ Finished("get_page_content")
    /\ StoreAnswered
    /\ Len(response.value) = 0
    /\ arg = <<"/", "B">>
    /\ result.value = <<"N", "o", " ", "c", "o", "n", "t", "e", "n", "t", " ", "f", "o", "u", "n", "d", " ", "f", "o", "r", " ", "U", "R", "L", ":", " ", "/", "B">>

\* C8: list_documentation_pages returns the empty list both when the store
\* answers with no rows and when the store query raises; the failure does
\* not reach the caller.
C8_EmptyListOnNothingOrFailure ==
    (Finished("list_documentation_pages")
        /\ (StoreFailed \/ (StoreAnswered /\ Len(response.value) = 0))) =>
        /\ ReturnedList
        /\ Len(result.value) = 0

C8_Witness ==
    /\ Finished("list_documentation_pages")
    /\ StoreFailed
    /\ response.cls = "ConnectError"
    /\ result.kind = "return"
    /\ result.value = <<>>
    /\ Len(printed) = 1

\* C9: in retrieve_relevant_documentation the embedding call has completed
\* before the store is called; a failed embedding call does not end the tool:
\* the store is still called exactly once, with the 1536-element zero vector,
\* match_count 5 and the source filter, and once the store has answered the
\* result is what its rows give (the no-results message or the blocks of the
\* rows), not an error string.
C9_FailedEmbeddingStillQueries ==
    op = "retrieve_relevant_documentation" =>
        /\ backend_calls > 0 => embed_calls = 1 /\ embed_outcome.kind # "none"
        /\ (EmbeddingFailed /\ pc \in {"execute", "done"}) =>
              /\ backend_calls = 1
              /\ backend_request.fn = "match_site_pages"
              /\ Len(backend_request.query_embedding) = 1536
              /\ \A i \in 1..1536 : backend_request.query_embedding[i] = 0
              /\ backend_request.match_count = 5
              /\ backend_request.source = "pydantic_ai_docs"
        /\ (EmbeddingFailed /\ pc = "done" /\ StoreAnswered) =>
              /\ ReturnedStr
              /\ ~HasPrefix(result.value, <<"E", "r", "r", "o", "r">>)
              /\ Len(response.value) = 0 => result.value = <<"N", "o", " ", "r", "e", "l", "e", "v", "a", "n", "t", " ", "d", "o", "c", "u", "m", "e", "n", "t", "a", "t", "i", "o", "n", " ", "f", "o", "u", "n", "d", ".">>
              /\ Len(response.value) > 0 => RenderedFromRows

C9_Witness ==
    /\ Finished("retrieve_relevant_documentation")
    /\ embed_outcome.kind = "raise"
    /\ Len(printed) = 1
    /\ backend_calls = 1
    /\ StoreAnswered
    /\ Len(response.value) = 2
    /\ HasPrefix(result.value, <<"\n", "#", " ", "A", "P", "I", "\n">>)

\* C10: the three tools query the store under one and the same source label:
\* whenever two of them have issued a store request, the source values of
\* the two requests are equal.
C10_OneSourceLabel ==
    \A s, t \in Tools :
        (sources[s] # "none" /\ sources[t] # "none") => sources[s] = sources[t]
====
